---- MODULE Spec2Model ----
(***************************************************************************)
(* Release-notes builder of release-please: DefaultChangelogNotes.         *)
(* Strings are sequences of one-character strings, so that the regular     *)
(* expressions of the source are matched character by character.           *)
(***************************************************************************)
EXTENDS Integers, Sequences, FiniteSets, TLC

VARIABLES
    commits,          \* buildNotes: the parsed ConventionalCommit[] argument
    options,          \* buildNotes: the BuildNotesOptions argument
    pc,               \* position inside buildNotes / the text operations
    seenShas,         \* buildNotes: const seenShas = new Set<string>()
    changelogCommits, \* buildNotes: the classified entries
    rendered,         \* buildNotes: let rendered
    text,             \* text operations: the input string
    cfg,              \* text operations: tracker configuration in use
    once,             \* the result of one application (text operations), of
                      \* the first call (buildNotes called again)
    twice             \* text operations: the result of a second application

vars == <<commits, options, pc, seenShas, changelogCommits, rendered,
          text, cfg, once, twice>>

(***************************************************************************)
(* Characters and strings                                                  *)
(***************************************************************************)
UpperChars == {"A","B","C","D","E","F","G","H","I","J","K","L","M",
               "N","O","P","Q","R","S","T","U","V","W","X","Y","Z"}
LowerChars == {"a","b","c","d","e","f","g","h","i","j","k","l","m",
               "n","o","p","q","r","s","t","u","v","w","x","y","z"}
DigitChars == {"0","1","2","3","4","5","6","7","8","9"}
WordChars == UpperChars \cup LowerChars \cup DigitChars \cup {"_"}
\* Characters that a string of this module cannot hold are written by their
\* code point: one element of a sequence, as every other character.
VerticalTab == "U+000B"
NoBreakSpace == "U+00A0"
LineSeparator == "U+2028"
ParagraphSeparator == "U+2029"
ByteOrderMark == "U+FEFF"
\* The space separators (category Zs) other than the space and U+00A0.
UnicodeSpaces == {"U+1680", "U+2000", "U+2001", "U+2002", "U+2003", "U+2004",
                  "U+2005", "U+2006", "U+2007", "U+2008", "U+2009", "U+200A",
                  "U+202F", "U+205F", "U+3000"}
\* The line terminators: what the . of a pattern without the s flag excludes.
LineTerminators == {"\n", "\r", LineSeparator, ParagraphSeparator}
\* \s of a pattern, and what String.prototype.trim removes: the white space
\* and the line terminators.
SpaceChars == {" ", "\t", "\f", VerticalTab, NoBreakSpace, ByteOrderMark}
              \cup UnicodeSpaces \cup LineTerminators
\* The grave accent (U+0060), the code-span delimiter of Markdown. A string of
\* this module cannot hold that character, so it is written as the tilde,
\* which no pattern of the source treats specially and no input here uses.
Backtick == "~"

UpperSeq == <<"A","B","C","D","E","F","G","H","I","J","K","L","M",
              "N","O","P","Q","R","S","T","U","V","W","X","Y","Z">>
LowerSeq == <<"a","b","c","d","e","f","g","h","i","j","k","l","m",
              "n","o","p","q","r","s","t","u","v","w","x","y","z">>

\* Case folding of one character, as the /i flag compares characters.
LowerOf(c) ==
    IF c \in UpperChars
    THEN LowerSeq[CHOOSE k \in 1..26 : UpperSeq[k] = c]
    ELSE c

StringsUpTo(alphabet, n) == UNION {[1..k -> alphabet] : k \in 0..n}

\* s.slice(i - 1): the characters of s from position i (1-based) to the end.
From(s, i) == IF i > Len(s) THEN <<>> ELSE SubSeq(s, i, Len(s))

\* The literal lit occurs in s at position i.
HasAt(s, i, lit) ==
    /\ i >= 1
    /\ i + Len(lit) - 1 <= Len(s)
    /\ \A k \in 1..Len(lit) : s[i + k - 1] = lit[k]

\* The literal lit occurs in s at position i, letter case ignored (/i).
HasAtNoCase(s, i, lit) ==
    /\ i >= 1
    /\ i + Len(lit) - 1 <= Len(s)
    /\ \A k \in 1..Len(lit) : LowerOf(s[i + k - 1]) = LowerOf(lit[k])

\* String.prototype.indexOf, 0-based, -1 when absent.
IndexOf(s, lit) ==
    IF \E i \in 1..(Len(s) + 1) : HasAt(s, i, lit)
    THEN (CHOOSE i \in 1..(Len(s) + 1) :
            /\ HasAt(s, i, lit)
            /\ \A j \in 1..(i - 1) : ~HasAt(s, j, lit)) - 1
    ELSE -1

\* Number of positions of s at which the literal lit occurs.
Occurrences(s, lit) == Cardinality({i \in 1..Len(s) : HasAt(s, i, lit)})

RECURSIVE Join(_, _)
\* Array.prototype.join
Join(parts, sep) ==
    IF Len(parts) = 0 THEN <<>>
    ELSE IF Len(parts) = 1 THEN parts[1]
    ELSE parts[1] \o sep \o Join(Tail(parts), sep)

RECURSIVE LeadingSpaces(_, _)
\* Number of white-space characters of s from position i on, before any other.
LeadingSpaces(s, i) ==
    IF i <= Len(s) /\ s[i] \in SpaceChars THEN 1 + LeadingSpaces(s, i + 1) ELSE 0

RECURSIVE TrailingSpaces(_, _)
\* Number of white-space characters of s from position i back, after any other.
TrailingSpaces(s, i) ==
    IF i >= 1 /\ s[i] \in SpaceChars THEN 1 + TrailingSpaces(s, i - 1) ELSE 0

\* String.prototype.trim
Trim(s) ==
    IF LeadingSpaces(s, 1) = Len(s) THEN <<>>
    ELSE SubSeq(s, LeadingSpaces(s, 1) + 1, Len(s) - TrailingSpaces(s, Len(s)))

\* message.split('\n')[0]
FirstLine(s) ==
    LET nl == {i \in 1..Len(s) : s[i] = "\n"}
    IN IF nl = {} THEN s
       ELSE SubSeq(s, 1, (CHOOSE i \in nl : \A j \in nl : i <= j) - 1)

(***************************************************************************)
(* htmlEscape: a global replace over double-backtick spans, single-       *)
(* backtick spans and the bare characters < and >, with its replacer       *)
(***************************************************************************)
\* First alternative at position i: two backticks, a non-backtick, .* (greedy,
\* never a line terminator), a non-backtick, two backticks. The result is the
\* position after the match, 0 when the alternative does not match.
DoubleSpanEnd(s, i) ==
    LET closers == {q \in (i + 4)..(Len(s) - 1) :
                      /\ s[q] = Backtick /\ s[q + 1] = Backtick
                      /\ s[q - 1] # Backtick
                      /\ \A k \in (i + 3)..(q - 2) : s[k] \notin LineTerminators}
    IN IF /\ HasAt(s, i, <<Backtick, Backtick>>)
          /\ i + 2 <= Len(s) /\ s[i + 2] # Backtick
          /\ closers # {}
       THEN (CHOOSE q \in closers : \A r \in closers : r <= q) + 2
       ELSE 0

\* Second alternative at position i: a backtick, non-backticks, a backtick.
SingleSpanEnd(s, i) ==
    LET closers == {q \in (i + 1)..Len(s) : s[q] = Backtick}
    IN IF i <= Len(s) /\ s[i] = Backtick /\ closers # {}
       THEN (CHOOSE q \in closers : \A r \in closers : q <= r) + 1
       ELSE 0

RECURSIVE htmlEscapeFrom(_, _)
htmlEscapeFrom(s, i) ==
    IF i > Len(s) THEN <<>>
    ELSE IF s[i] = Backtick
         THEN LET double == DoubleSpanEnd(s, i)
                  single == SingleSpanEnd(s, i)
              IN IF double # 0
                 THEN SubSeq(s, i, double - 1) \o htmlEscapeFrom(s, double)
                 ELSE IF single # 0
                 THEN SubSeq(s, i, single - 1) \o htmlEscapeFrom(s, single)
                 ELSE <<s[i]>> \o htmlEscapeFrom(s, i + 1)
    ELSE IF s[i] = "<" THEN <<"&", "l", "t", ";">> \o htmlEscapeFrom(s, i + 1)
    ELSE IF s[i] = ">" THEN <<"&", "g", "t", ";">> \o htmlEscapeFrom(s, i + 1)
    ELSE <<s[i]>> \o htmlEscapeFrom(s, i + 1)

htmlEscape(message) == htmlEscapeFrom(message, 1)

(***************************************************************************)
(* Tracker keys: the patterns of buildNotes                                *)
(***************************************************************************)
\* \d+ at position i, greedy: the position after the digits, 0 without a digit.
DigitsEnd(s, i) ==
    IF i <= Len(s) /\ s[i] \in DigitChars
    THEN (CHOOSE e \in (i + 1)..(Len(s) + 1) :
            /\ \A k \in i..(e - 1) : s[k] \in DigitChars
            /\ (e > Len(s) \/ s[e] \notin DigitChars))
    ELSE 0

\* [A-Z][A-Z0-9]+-\d+ at position i: the position after the key, 0 on failure.
AnyKeyEnd(s, i) ==
    IF i + 1 <= Len(s) /\ s[i] \in UpperChars /\ s[i + 1] \in UpperChars \cup DigitChars
    THEN LET dash == CHOOSE e \in (i + 2)..(Len(s) + 1) :
                        /\ \A k \in (i + 1)..(e - 1) : s[k] \in UpperChars \cup DigitChars
                        /\ (e > Len(s) \/ s[e] \notin UpperChars \cup DigitChars)
         IN IF dash <= Len(s) /\ s[dash] = "-" THEN DigitsEnd(s, dash + 1) ELSE 0
    ELSE 0

\* (?:p1|p2|...)-\d+ at position i, the prefixes escaped, tried in list order.
ListKeyEnd(s, i, prefixes) ==
    LET fits(k) == /\ HasAt(s, i, prefixes[k])
                   /\ HasAt(s, i + Len(prefixes[k]), <<"-">>)
                   /\ DigitsEnd(s, i + Len(prefixes[k]) + 1) # 0
        ok == {k \in 1..Len(prefixes) : fits(k)}
    IN IF ok = {} THEN 0
       ELSE DigitsEnd(s, i + Len(prefixes[CHOOSE k \in ok : \A j \in ok : k <= j]) + 1)

\* options.trackerList && options.trackerList.length > 0 ? options.trackerList
\* : undefined; the empty list stands for undefined.
trackerPrefixes(trackerList) == trackerList

\* The key group of issueKeyRegex at position i.
issueKeyEnd(s, i, prefixes) ==
    IF prefixes # <<>> THEN ListKeyEnd(s, i, prefixes) ELSE AnyKeyEnd(s, i)

\* issueKeyRegex at position i: (?:^|[^A-Z0-9]) and then the key. The result
\* is <<position after the match, position of the key>>, <<0, 0>> on failure.
issueKeyRegex(s, i, prefixes) ==
    LET atStart == IF i = 1 THEN issueKeyEnd(s, 1, prefixes) ELSE 0
        afterSep == IF i <= Len(s) /\ s[i] \notin UpperChars \cup DigitChars
                    THEN issueKeyEnd(s, i + 1, prefixes) ELSE 0
    IN IF atStart # 0 THEN <<atStart, 1>>
       ELSE IF afterSep # 0 THEN <<afterSep, i + 1>>
       ELSE <<0, 0>>

\* The replacer of subject.replace(issueKeyRegex, ...): m is the match, key
\* its group 1.
issueLink(m, key, trackerUrl) ==
    LET prefix == SubSeq(m, 1, IndexOf(m, key))
        link == <<"[">> \o key \o <<"]","(">> \o trackerUrl \o key \o <<")">>
    IN prefix \o link

RECURSIVE replaceIssueKeysFrom(_, _, _, _)
replaceIssueKeysFrom(s, i, prefixes, trackerUrl) ==
    IF i > Len(s) THEN <<>>
    ELSE LET hit == issueKeyRegex(s, i, prefixes)
         IN IF hit[1] # 0
            THEN issueLink(SubSeq(s, i, hit[1] - 1), SubSeq(s, hit[2], hit[1] - 1),
                           trackerUrl)
                 \o replaceIssueKeysFrom(s, hit[1], prefixes, trackerUrl)
            ELSE <<s[i]>> \o replaceIssueKeysFrom(s, i + 1, prefixes, trackerUrl)

\* subject.replace(issueKeyRegex, (m, key) => ...), the issue link rewrite.
replaceIssueKeys(subject, prefixes, trackerUrl) ==
    replaceIssueKeysFrom(subject, 1, prefixes, trackerUrl)

\* if (trackerUrl) subject = subject.replace(...): the empty url is no url.
linkSubject(subject, prefixes, trackerUrl) ==
    IF trackerUrl # <<>> THEN replaceIssueKeys(subject, prefixes, trackerUrl)
    ELSE subject

(***************************************************************************)
(* Header patterns                                                         *)
(***************************************************************************)
\* const prefixClass = trackerPrefixes && trackerPrefixes.length
\*   ? (?:p1|p2|...) : [A-Z][A-Z0-9]+, followed by -\d+
prefixClass(s, i, prefixes) ==
    IF prefixes # <<>> THEN ListKeyEnd(s, i, prefixes) ELSE AnyKeyEnd(s, i)

\* prefixClass-\d+ at position i, one result for every alternative of
\* prefixClass in its order: the position after the key read with that
\* alternative, 0 when it does not fit. When what follows the key fails, the
\* pattern goes back into the alternation and tries the next one.
prefixClassEnds(s, i, prefixes) ==
    IF prefixes # <<>>
    THEN [k \in 1..Len(prefixes) |-> ListKeyEnd(s, i, <<prefixes[k]>>)]
    ELSE <<AnyKeyEnd(s, i)>>

\* The header shape ^(\[KEY\]|KEY), bracketed alternative: the position after
\* the closing bracket, 0 on failure. The key is any key when prefixes is
\* empty; of the configured prefixes the first one in list order counts
\* whose key is followed by the closing bracket.
BracketedKeyEnd(s, prefixes) ==
    LET ends == prefixClassEnds(s, 2, prefixes)
        ok == {k \in 1..Len(ends) : ends[k] # 0 /\ HasAt(s, ends[k], <<"]">>)}
    IN IF HasAt(s, 1, <<"[">>) /\ ok # {}
       THEN ends[CHOOSE k \in ok : \A j \in ok : k <= j] + 1
       ELSE 0

\* const jiraHeader = /^(\[[A-Z][A-Z0-9]+-\d+\]|[A-Z][A-Z0-9]+-\d+):\s/
jiraHeader(s) ==
    LET colonAt(e) == e # 0 /\ HasAt(s, e, <<":">>)
                      /\ e + 1 <= Len(s) /\ s[e + 1] \in SpaceChars
    IN \/ colonAt(BracketedKeyEnd(s, <<>>))
       \/ colonAt(AnyKeyEnd(s, 1))

\* const jiraHeader = new RegExp(^(\[prefixClass-\d+\]|prefixClass-\d+):\s),
\* the tracker-issue header restricted to the configured prefixes: some
\* alternative of prefixClass reads a key that the rest of the pattern follows.
trackerIssueHeader(s, prefixes) ==
    LET colonAt(e) == e # 0 /\ HasAt(s, e, <<":">>)
                      /\ e + 1 <= Len(s) /\ s[e + 1] \in SpaceChars
        inside == prefixClassEnds(s, 2, prefixes)
        bare == prefixClassEnds(s, 1, prefixes)
    IN \/ /\ HasAt(s, 1, <<"[">>)
          /\ \E k \in 1..Len(inside) :
                inside[k] # 0 /\ HasAt(s, inside[k], <<"]">>) /\ colonAt(inside[k] + 1)
       \/ \E k \in 1..Len(bare) : colonAt(bare[k])

\* const jiraKeyExtract = new RegExp(^(?:\[)?(prefixClass-\d+)(?:\])?:\s(.*)$)
\* from the key at position at on: an optional closing bracket, a colon, a
\* white-space character, and no line terminator up to the end of s. The
\* result is the position after the key of the first alternative that the
\* rest of the pattern follows, 0 when there is none.
jiraKeyExtractEnd(s, at, prefixes) ==
    LET ends == prefixClassEnds(s, at, prefixes)
        restAt(e) == /\ HasAt(s, e, <<":">>)
                     /\ e + 1 <= Len(s) /\ s[e + 1] \in SpaceChars
                     /\ \A k \in (e + 2)..Len(s) : s[k] \notin LineTerminators
        ok == {k \in 1..Len(ends) :
                  /\ ends[k] # 0
                  /\ \/ (HasAt(s, ends[k], <<"]">>) /\ restAt(ends[k] + 1))
                     \/ restAt(ends[k])}
    IN IF ok = {} THEN 0 ELSE ends[CHOOSE k \in ok : \A j \in ok : k <= j]

\* A word boundary \b between positions e - 1 and e of s.
WordBoundary(s, e) ==
    LET isWord(i) == i >= 1 /\ i <= Len(s) /\ s[i] \in WordChars
    IN isWord(e - 1) # isWord(e)

\* const rawIssueHeader = /^(\[[A-Z][A-Z0-9]+-\d+\]|[A-Z][A-Z0-9]+-\d+)\b/
rawIssueHeader(s) ==
    LET boundaryAt(e) == e # 0 /\ WordBoundary(s, e)
    IN \/ boundaryAt(BracketedKeyEnd(s, <<>>))
       \/ boundaryAt(AnyKeyEnd(s, 1))

conventionalTypes ==
    <<<<"f","e","a","t">>, <<"f","i","x">>, <<"d","o","c","s">>, <<"s","t","y","l","e">>, <<"r","e","f","a","c","t","o","r">>, <<"p","e","r","f">>,
      <<"t","e","s","t">>, <<"b","u","i","l","d">>, <<"c","i">>, <<"c","h","o","r","e">>, <<"r","e","v","e","r","t">>>>

\* (\(.*?\))?:\s at position i: an optional parenthesized scope on one line,
\* then a colon and a white-space character.
ScopeColonSpace(s, i) ==
    LET colonAt(e) == HasAt(s, e, <<":">>) /\ e + 1 <= Len(s) /\ s[e + 1] \in SpaceChars
    IN \/ colonAt(i)
       \/ /\ HasAt(s, i, <<"(">>)
          /\ \E j \in (i + 1)..Len(s) :
                /\ s[j] = ")"
                /\ \A k \in (i + 1)..(j - 1) : s[k] \notin LineTerminators
                /\ colonAt(j + 1)

\* const conventionalHeader =
\*   /^(feat|fix|docs|style|refactor|perf|test|build|ci|chore|revert)(\(.*?\))?:\s/
conventionalHeader(s) ==
    \E k \in 1..Len(conventionalTypes) :
        /\ HasAt(s, 1, conventionalTypes[k])
        /\ ScopeColonSpace(s, Len(conventionalTypes[k]) + 1)

\* const mergeHeader = /^Merge\b/
mergeHeader(s) == HasAt(s, 1, <<"M","e","r","g","e">>) /\ WordBoundary(s, 6)

\* const skipRelease = /release[- ]please|^chore\(main\): release/i
skipRelease(s) ==
    \/ \E i \in 1..Len(s) :
          \/ HasAtNoCase(s, i, <<"r","e","l","e","a","s","e","-","p","l","e","a","s","e">>)
          \/ HasAtNoCase(s, i, <<"r","e","l","e","a","s","e"," ","p","l","e","a","s","e">>)
    \/ HasAtNoCase(s, 1, <<"c","h","o","r","e","(","m","a","i","n",")",":"," ","r","e","l","e","a","s","e">>)

\* const jiraLike = /^[A-Z][A-Z0-9]+-\d+$/
jiraLike(s) == AnyKeyEnd(s, 1) = Len(s) + 1

\* const hasLetters = /[A-Za-z]/
hasLetters(s) == \E i \in 1..Len(s) : s[i] \in UpperChars \cup LowerChars

\* const isConventionalHeader = /^[a-z]+(\(.*\))?!?:\s/
isConventionalHeader(s) ==
    \E e \in 2..Len(s) :
        /\ \A k \in 1..(e - 1) : s[k] \in LowerChars
        /\ LET bangColon(p) == \/ HasAt(s, p, <<":"," ">>) \/ HasAt(s, p, <<"!",":"," ">>)
                               \/ (HasAt(s, p, <<":">>) /\ p + 1 <= Len(s) /\ s[p + 1] \in SpaceChars)
                               \/ (HasAt(s, p, <<"!",":">>) /\ p + 2 <= Len(s) /\ s[p + 2] \in SpaceChars)
           IN \/ bangColon(e)
              \/ /\ s[e] = "("
                 /\ \E j \in (e + 1)..Len(s) :
                       /\ s[j] = ")"
                       /\ \A k \in (e + 1)..(j - 1) : s[k] \notin LineTerminators
                       /\ bangColon(j + 1)

(***************************************************************************)
(* buildNotes: classification of the commits                               *)
(***************************************************************************)
\* null and undefined: a value no string equals.
Null == <<"null">>

DEFAULT_HOST == <<"h","t","t","p","s",":","/","/","g","i","t","h","u","b",".","c","o","m">>

\* const context = {host: options.host || DEFAULT_HOST, owner, repository, ...}
contextOf(opts) ==
    [host |-> IF opts.host # <<>> /\ opts.host # Null THEN opts.host ELSE DEFAULT_HOST,
     owner |-> opts.owner,
     repository |-> opts.repository,
     version |-> opts.version,
     previousTag |-> opts.previousTag,
     linkCompare |-> opts.previousTag # <<>> /\ opts.previousTag # Null]

\* /\(#(\d+)\)/ at position i: the position after the match, 0 on failure.
IssueRefEnd(s, i) ==
    IF HasAt(s, i, <<"(","#">>) /\ DigitsEnd(s, i + 2) # 0
       /\ HasAt(s, DigitsEnd(s, i + 2), <<")">>)
    THEN DigitsEnd(s, i + 2) + 1
    ELSE 0

\* The replacement string of replaceIssueLink, a template literal:
\* ([#$1](host/owner/repo/issues/$1))
issueLinkReplacement(host, owner, repo) ==
    <<"(","[","#","$","1","]","(">> \o host \o <<"/">> \o owner \o <<"/">> \o repo \o <<"/","i","s","s","u","e","s","/","$","1",")",")">>

RECURSIVE GetSubstitution(_, _, _, _, _)
\* What String.prototype.replace makes of the replacement string r from
\* position i on, for the match of t that starts at p and ends before e and
\* has one group, the digits: $$ is a dollar sign, $& the match, $ and a grave
\* accent the text before the match, $' the text after it, $1 and $01 the
\* group; every other character, a dollar sign too, stands for itself.
GetSubstitution(r, i, t, p, e) ==
    LET dollars == {k \in i..Len(r) : r[k] = "$"}
    IN IF dollars = {} THEN From(r, i)
       ELSE LET d == CHOOSE k \in dollars : \A m \in dollars : k <= m
            IN SubSeq(r, i, d - 1) \o
               CASE HasAt(r, d, <<"$","$">>) -> <<"$">> \o GetSubstitution(r, d + 2, t, p, e)
                 [] HasAt(r, d, <<"$","&">>) ->
                        SubSeq(t, p, e - 1) \o GetSubstitution(r, d + 2, t, p, e)
                 [] HasAt(r, d, <<"$", Backtick>>) ->
                        SubSeq(t, 1, p - 1) \o GetSubstitution(r, d + 2, t, p, e)
                 [] HasAt(r, d, <<"$", "'">>) ->
                        From(t, e) \o GetSubstitution(r, d + 2, t, p, e)
                 [] HasAt(r, d, <<"$","0","1">>) ->
                        SubSeq(t, p + 2, e - 2) \o GetSubstitution(r, d + 3, t, p, e)
                 [] HasAt(r, d, <<"$","1">>) ->
                        SubSeq(t, p + 2, e - 2) \o GetSubstitution(r, d + 2, t, p, e)
                 [] OTHER -> <<"$">> \o GetSubstitution(r, d + 1, t, p, e)

\* What replace puts for the match (#N) at position p of the text t.
issueRefLink(t, p, host, owner, repo) ==
    GetSubstitution(issueLinkReplacement(host, owner, repo), 1, t, p, IssueRefEnd(t, p))

RECURSIVE replaceEveryIssueLinkFrom(_, _, _, _, _)
replaceEveryIssueLinkFrom(s, i, host, owner, repo) ==
    IF i > Len(s) THEN <<>>
    ELSE IF IssueRefEnd(s, i) # 0
         THEN issueRefLink(s, i, host, owner, repo)
              \o replaceEveryIssueLinkFrom(s, IssueRefEnd(s, i), host, owner, repo)
         ELSE <<s[i]>> \o replaceEveryIssueLinkFrom(s, i + 1, host, owner, repo)

\* The replace as it would be with the g flag, which the source does not
\* set: every (#N) of the text becomes a link.
replaceEveryIssueLink(noteText, host, owner, repo) ==
    replaceEveryIssueLinkFrom(noteText, 1, host, owner, repo)

\* note.text.replace(/\(#(\d+)\)/, ([#$1](host/owner/repo/issues/$1))): the
\* first match only, the pattern has no g flag.
replaceIssueLinkText(noteText, host, owner, repo) ==
    LET hits == {i \in 1..Len(noteText) : IssueRefEnd(noteText, i) # 0}
    IN IF hits = {} THEN noteText
       ELSE LET i == CHOOSE h \in hits : \A g \in hits : h <= g
                e == IssueRefEnd(noteText, i)
            IN SubSeq(noteText, 1, i - 1)
               \o issueRefLink(noteText, i, host, owner, repo)
               \o From(noteText, e)

\* function replaceIssueLink(note, host, owner, repo): writes note.text and
\* returns the same note object.
replaceIssueLink(note, host, owner, repo) ==
    [note EXCEPT !.text = replaceIssueLinkText(note.text, host, owner, repo)]

BREAKING_CHANGE == <<"B","R","E","A","K","I","N","G"," ","C","H","A","N","G","E">>
RELEASE_AS == <<"R","E","L","E","A","S","E"," ","A","S">>
others == <<"o","t","h","e","r","s">>

\* commit.notes after the map callback ran on the commit: replaceIssueLink
\* assigned the text of every BREAKING CHANGE note in place.
notesAfterMap(notes, ctx) ==
    [k \in 1..Len(notes) |->
        IF notes[k].title = BREAKING_CHANGE
        THEN replaceIssueLink(notes[k], ctx.host, ctx.owner, ctx.repository)
        ELSE notes[k]]

\* commit.notes.filter(note => note.title === 'BREAKING CHANGE').map(replaceIssueLink)
breakingNotes(notes, ctx) ==
    SelectSeq(notesAfterMap(notes, ctx), LAMBDA n : n.title = BREAKING_CHANGE)

\* commit.notes.filter(title === 'RELEASE AS').map(Release-As: text).join('\n').
\* The RELEASE AS notes are not the notes that replaceIssueLink rewrites.
footerOf(notes) ==
    LET picked == SelectSeq(notes, LAMBDA n : n.title = RELEASE_AS)
    IN Join([k \in 1..Len(picked) |-> <<"R","e","l","e","a","s","e","-","A","s",":"," ">> \o picked[k].text], <<"\n">>)

\* The callback of commits.map in buildNotes, for one commit.
classify(commit, opts) ==
    LET ctx == contextOf(opts)
        headerLine == commit.message
        isJiraHeader == jiraHeader(headerLine)
        escaped == IF isJiraHeader THEN htmlEscape(headerLine)
                   ELSE htmlEscape(commit.bareMessage)
    IN [body |-> <<>>,
        subject |-> linkSubject(escaped, trackerPrefixes(opts.trackerList),
                                opts.trackerUrl),
        type |-> IF isJiraHeader THEN others ELSE commit.type,
        scope |-> commit.scope,
        notes |-> breakingNotes(commit.notes, ctx),
        references |-> commit.references,
        mentions |-> <<>>,
        merge |-> Null,
        revert |-> Null,
        header |-> commit.message,
        footer |-> footerOf(commit.notes),
        hash |-> commit.sha]

\* The test of the raw-commit loop: true when the raw commit is skipped by one
\* of the continue statements that follow the seenShas test.
rawSkipped(msg) ==
    /\ ~rawIssueHeader(msg)
    /\ \/ conventionalHeader(msg)
       \/ mergeHeader(msg)
       \/ skipRelease(msg)

\* changelogCommits.push({...}) of the raw-commit loop.
rawEntry(raw, opts) ==
    LET msg == FirstLine(raw.message)
    IN [body |-> <<>>,
        subject |-> linkSubject(htmlEscape(msg), trackerPrefixes(opts.trackerList),
                                opts.trackerUrl),
        type |-> others,
        scope |-> Null,
        notes |-> <<>>,
        references |-> <<>>,
        mentions |-> <<>>,
        merge |-> Null,
        revert |-> Null,
        header |-> msg,
        footer |-> <<>>,
        hash |-> raw.sha]

RECURSIVE recoverFrom(_, _, _, _)
\* for (const raw of options.commits) {...}, from element j on.
recoverFrom(raws, j, seen, opts) ==
    IF j > Len(raws) THEN <<>>
    ELSE IF raws[j].sha \in seen \/ rawSkipped(FirstLine(raws[j].message))
         THEN recoverFrom(raws, j + 1, seen, opts)
    ELSE <<rawEntry(raws[j], opts)>> \o recoverFrom(raws, j + 1, seen, opts)

(***************************************************************************)
(* The Section Renderer (preset factory and changelog writer) and the      *)
(* Others block appended by buildNotes                                     *)
(***************************************************************************)
\* const defaultTypes: the sections used when options.changelogSections is
\* not set.
defaultTypes ==
    <<[type |-> <<"f","e","a","t">>, section |-> <<"F","e","a","t","u","r","e","s">>, hidden |-> FALSE],
      [type |-> <<"f","i","x">>, section |-> <<"B","u","g"," ","F","i","x","e","s">>, hidden |-> FALSE],
      [type |-> <<"p","e","r","f">>, section |-> <<"P","e","r","f","o","r","m","a","n","c","e"," ","I","m","p","r","o","v","e","m","e","n","t","s">>, hidden |-> FALSE],
      [type |-> <<"r","e","v","e","r","t">>, section |-> <<"R","e","v","e","r","t","s">>, hidden |-> FALSE],
      [type |-> <<"c","h","o","r","e">>, section |-> <<"M","i","s","c","e","l","l","a","n","e","o","u","s"," ","C","h","o","r","e","s">>, hidden |-> TRUE],
      [type |-> <<"d","o","c","s">>, section |-> <<"D","o","c","u","m","e","n","t","a","t","i","o","n">>, hidden |-> TRUE],
      [type |-> <<"s","t","y","l","e">>, section |-> <<"S","t","y","l","e","s">>, hidden |-> TRUE],
      [type |-> <<"r","e","f","a","c","t","o","r">>, section |-> <<"C","o","d","e"," ","R","e","f","a","c","t","o","r","i","n","g">>, hidden |-> TRUE],
      [type |-> <<"t","e","s","t">>, section |-> <<"T","e","s","t","s">>, hidden |-> TRUE],
      [type |-> <<"b","u","i","l","d">>, section |-> <<"B","u","i","l","d"," ","S","y","s","t","e","m">>, hidden |-> TRUE],
      [type |-> <<"c","i">>, section |-> <<"C","o","n","t","i","n","u","o","u","s"," ","I","n","t","e","g","r","a","t","i","o","n">>, hidden |-> TRUE]>>

\* The section types of the preset when config.types is not set, taken to be
\* the same list.
presetTypes == defaultTypes

\* config.types: options.changelogSections when set, else the preset's own.
configTypes(opts) ==
    IF opts.changelogSections # <<>> THEN opts.changelogSections ELSE presetTypes

\* ([sha7](host/owner/repository/commit/sha)), the link to a commit.
commitLink(hash, ctx) ==
    <<"(","[">> \o SubSeq(hash, 1, IF Len(hash) < 7 THEN Len(hash) ELSE 7) \o <<"]","(">>
    \o ctx.host \o <<"/">> \o ctx.owner \o <<"/">> \o ctx.repository
    \o <<"/","c","o","m","m","i","t","/">> \o hash \o <<")",")">>

\* One bullet of a rendered section.
sectionBullet(c, ctx) ==
    <<"*"," ">>
    \o (IF c.scope # Null /\ c.scope # <<>> THEN <<"*","*">> \o c.scope \o <<":","*","*"," ">> ELSE <<>>)
    \o c.subject
    \o (IF c.hash # Null /\ c.hash # <<>> THEN <<" ">> \o commitLink(c.hash, ctx) ELSE <<>>)

RECURSIVE sectionLines(_, _, _, _)
\* The lines of the sections from types[k] on: every section that is not
\* hidden and has an entry of its type gets a heading and one bullet an entry.
sectionLines(entries, types, k, ctx) ==
    IF k > Len(types) THEN <<>>
    ELSE LET mine == SelectSeq(entries, LAMBDA c : c.type = types[k].type)
         IN (IF types[k].hidden \/ Len(mine) = 0 THEN <<>>
             ELSE <<<<"#","#","#"," ">> \o types[k].section, <<>>>>
                  \o [b \in 1..Len(mine) |-> sectionBullet(mine[b], ctx)]
                  \o << <<>> >>)
            \o sectionLines(entries, types, k + 1, ctx)

\* One bullet of the notes section: the text of a note of the entry c.
noteBullet(c, note) ==
    <<"*"," ">>
    \o (IF c.scope # Null /\ c.scope # <<>> THEN <<"*","*">> \o c.scope \o <<":","*","*"," ">> ELSE <<>>)
    \o note.text

RECURSIVE noteBullets(_, _, _)
\* The bullets of the notes of the entries from entries[k] on that the writer
\* renders, the entries of a section that is not hidden.
noteBullets(entries, types, k) ==
    IF k > Len(entries) THEN <<>>
    ELSE (IF \E t \in 1..Len(types) :
                types[t].type = entries[k].type /\ ~types[t].hidden
          THEN [n \in 1..Len(entries[k].notes) |->
                   noteBullet(entries[k], entries[k].notes[n])]
          ELSE <<>>)
         \o noteBullets(entries, types, k + 1)

\* The notes section of the writer: the heading of the breaking changes (the
\* preset puts a warning sign in it, left out here) and one bullet a note.
noteLines(entries, types) ==
    IF noteBullets(entries, types, 1) = <<>> THEN <<>>
    ELSE <<<<"#","#","#"," ","B","R","E","A","K","I","N","G"," ","C","H","A","N","G","E","S">>, <<>>>> \o noteBullets(entries, types, 1) \o << <<>> >>

\* conventionalChangelogWriter.parseArray(changelogCommits, context,
\* preset.writerOpts).trim(): the version header, the notes, then the sections.
parseArray(entries, ctx, types) ==
    Trim(Join((IF ctx.version # <<>> /\ ctx.version # Null
               THEN <<<<"#","#"," ">> \o ctx.version, <<>>>> ELSE <<>>)
              \o noteLines(entries, types)
              \o sectionLines(entries, types, 1, ctx), <<"\n">>))

\* const others = changelogCommits.filter(c => c.type === 'others')
othersOf(entries) == SelectSeq(entries, LAMBDA c : c.type = others)

\* The line of the Others block as it would be without the trim() of the
\* source: an entry without sha keeps the blank that follows its subject.
othersLineUntrimmed(c, ctx) ==
    <<"*"," ">> \o c.subject \o <<" ">>
    \o (IF c.hash # Null /\ c.hash # <<>> THEN commitLink(c.hash, ctx) ELSE <<>>)

\* One line of the Others block: (* subject link).trim()
othersLine(c, ctx) ==
    LET shortSha == IF c.hash # Null THEN c.hash ELSE <<>>
        sha7 == SubSeq(shortSha, 1, IF Len(shortSha) < 7 THEN Len(shortSha) ELSE 7)
        link == IF sha7 # <<>>
                THEN <<"(","[">> \o sha7 \o <<"]","(">> \o ctx.host \o <<"/">> \o ctx.owner \o <<"/">>
                     \o ctx.repository \o <<"/","c","o","m","m","i","t","/">> \o shortSha \o <<")",")">>
                ELSE <<>>
    IN Trim(<<"*"," ">> \o c.subject \o <<" ">> \o link)

\* The lines array built when others.length > 0.
othersBlock(renderedText, entries, ctx) ==
    (IF Len(renderedText) > 0 THEN <<renderedText, <<>>>> ELSE <<>>)
    \o <<<<"#","#","#"," ","O","t","h","e","r","s">>, <<>>>>
    \o [k \in 1..Len(othersOf(entries)) |-> othersLine(othersOf(entries)[k], ctx)]

\* The tail of buildNotes: the value returned for the writer's output.
appendOthers(renderedText, entries, ctx) ==
    IF Len(othersOf(entries)) > 0
    THEN Join(othersBlock(renderedText, entries, ctx), <<"\n">>)
    ELSE renderedText

(***************************************************************************)
(* Inputs of buildNotes                                                    *)
(***************************************************************************)
MaxCommits == 1
MaxRaw == 1

ParsedShas == <<<<"a","1","b","2","c","3","d","4","e","5">>, <<"b","2","c","3","d","4","e","5","f","6">>, <<"c","3","d","4","e","5","f","6","a","7">>>>
RawShas == <<<<"d","4","e","5","f","6","a","7","b","8">>, <<"e","5","f","6","a","7","b","8","c","9">>, <<"f","6","a","7","b","8","c","9","d","0">>>>

NoNotes == <<>>
BreakingNotes ==
    <<[title |-> BREAKING_CHANGE, text |-> <<"o","l","d"," ","A","P","I"," ","r","e","m","o","v","e","d"," ","(","#","4","2",")">>],
      [title |-> RELEASE_AS, text |-> <<"2",".","0",".","0">>],
      [title |-> BREAKING_CHANGE, text |-> <<"d","r","o","p"," ","v","1"," ","(","#","7",")"," ","a","n","d"," ","v","2"," ","(","#","8",")">>]>>

\* A commit handed over without a sha (commit.sha is undefined).
ShalessShape ==
    [message |-> <<"A","B","C","-","4",":"," ","n","o"," ","s","h","a">>, bareMessage |-> <<"n","o"," ","s","h","a">>,
     type |-> <<"A","B","C","-","4">>, scope |-> Null, notes |-> NoNotes, references |-> <<>>]

\* ConventionalCommit values as the upstream parser hands them over, less sha.
ParsedShapes ==
    {[message |-> <<"f","e","a","t",":"," ","a","d","d"," ","A","B","C","-","1"," ","w","i","d","g","e","t">>, bareMessage |-> <<"a","d","d"," ","A","B","C","-","1"," ","w","i","d","g","e","t">>,
      type |-> <<"f","e","a","t">>, scope |-> Null, notes |-> BreakingNotes, references |-> <<>>],
     [message |-> <<"A","B","C","-","1",":"," ","f","i","x"," ","<","b",">"," ","t","h","i","n","g">>, bareMessage |-> <<"f","i","x"," ","<","b",">"," ","t","h","i","n","g">>,
      type |-> <<"A","B","C","-","1">>, scope |-> Null, notes |-> NoNotes, references |-> <<>>],
     [message |-> <<"X","Y","Z","-","2",":"," ","o","t","h","e","r"," ","t","h","i","n","g">>, bareMessage |-> <<"o","t","h","e","r"," ","t","h","i","n","g">>,
      type |-> <<"X","Y","Z","-","2">>, scope |-> Null, notes |-> NoNotes, references |-> <<>>],
     [message |-> <<"c","h","o","r","e",":"," ","t","i","d","y"," ","u","p">>, bareMessage |-> <<"t","i","d","y"," ","u","p">>,
      type |-> <<"c","h","o","r","e">>, scope |-> Null, notes |-> NoNotes, references |-> <<>>],
     [message |-> <<"A","B","C","-","3","(","c","o","r","e",")",":"," ","s","c","o","p","e","d">>, bareMessage |-> <<"s","c","o","p","e","d">>,
      type |-> <<"A","B","C","-","3">>, scope |-> <<"c","o","r","e">>, notes |-> NoNotes, references |-> <<>>],
     ShalessShape}

RawMessages ==
    {<<"A","B","C","-","9",":"," ","u","p","d","a","t","e"," ","d","o","c","s","\n","b","o","d","y">>,
     <<"M","e","r","g","e"," ","b","r","a","n","c","h"," ","'","m","a","i","n","'">>,
     <<"d","e","p","s",":"," ","b","u","m","p"," ","x">>,
     <<"f","i","x",":"," ","r","e","a","l"," ","f","i","x">>,
     <<"[","A","B","C","-","9","]",":"," ","r","e","l","e","a","s","e","-","p","l","e","a","s","e"," ","c","f","g">>,
     <<"u","p","d","a","t","e"," ","r","e","a","d","m","e">>,
     <<"1",".","2",".","3">>,
     <<"c","h","o","r","e","(","m","a","i","n",")",":"," ","r","e","l","e","a","s","e"," ","1",".","2",".","3">>}

withSha(shape, sha) ==
    [sha |-> sha, message |-> shape.message, bareMessage |-> shape.bareMessage,
     type |-> shape.type, scope |-> shape.scope, notes |-> shape.notes,
     references |-> shape.references]

\* Lists of parsed commits: the commit at position k has the sha ParsedShas[k],
\* the commit of ShalessShape has none.
ParsedLists ==
    UNION {{[k \in 1..n |-> withSha(f[k], IF f[k] = ShalessShape THEN Null
                                          ELSE ParsedShas[k])]
            : f \in [1..n -> ParsedShapes]}
           : n \in 0..MaxCommits}

\* Lists of raw commits: the first one has a sha of its own or the sha of the
\* first parsed commit, the others have shas of their own.
RawLists ==
    UNION {{[k \in 1..n |-> [sha |-> IF k = 1 /\ same THEN ParsedShas[1] ELSE RawShas[k],
                             message |-> f[k]]]
            : f \in [1..n -> RawMessages], same \in BOOLEAN}
           : n \in 0..MaxRaw}

TrackerConfigs ==
    {[trackerList |-> <<>>, trackerUrl |-> <<>>],
     [trackerList |-> <<>>, trackerUrl |-> <<"h","t","t","p","s",":","/","/","t","/">>],
     [trackerList |-> <<<<"A","B","C">>>>, trackerUrl |-> <<"h","t","t","p","s",":","/","/","t","/">>]}

\* options.changelogSections; the empty list stands for undefined.
SectionMaps ==
    {<<>>,
     <<[type |-> <<"f","e","a","t">>, section |-> <<"F","e","a","t","u","r","e","s">>, hidden |-> FALSE],
       [type |-> <<"c","h","o","r","e">>, section |-> <<"C","h","o","r","e","s">>, hidden |-> TRUE],
       [type |-> <<"o","t","h","e","r","s">>, section |-> <<"O","t","h","e","r","s">>, hidden |-> FALSE]>>,
     <<[type |-> <<"f","e","a","t">>, section |-> <<"F","e","a","t","u","r","e","s">>, hidden |-> FALSE],
       [type |-> <<"o","t","h","e","r","s">>, section |-> <<"O","t","h","e","r","s">>, hidden |-> TRUE]>>}

Releases ==
    {[version |-> <<"1",".","0",".","0">>, host |-> Null, previousTag |-> <<"v","0",".","9",".","0">>],
     [version |-> <<>>, host |-> <<"h","t","t","p","s",":","/","/","h">>, previousTag |-> Null]}

\* options.commits: given FALSE is the absent list, written as the empty one.
RawOptions ==
    {[list |-> raws, given |-> TRUE] : raws \in RawLists}
    \cup {[list |-> <<>>, given |-> FALSE]}

\* BuildNotesOptions; hasCommits tells whether options.commits is set.
OptionsSet ==
    {[commits |-> ro.list, hasCommits |-> ro.given, trackerList |-> t.trackerList,
      trackerUrl |-> t.trackerUrl, changelogSections |-> sm, version |-> r.version,
      host |-> r.host, previousTag |-> r.previousTag, owner |-> <<"o">>,
      repository |-> <<"r">>]
     : ro \in RawOptions, t \in TrackerConfigs, sm \in SectionMaps, r \in Releases}

(***************************************************************************)
(* buildNotes as a state machine                                           *)
(***************************************************************************)
NoText == <<"none">>

Init ==
    /\ commits \in ParsedLists
    /\ options \in OptionsSet
    /\ pc = "map"
    /\ seenShas = {}
    /\ changelogCommits = <<>>
    /\ rendered = <<>>
    /\ text = NoText /\ cfg = NoText /\ once = NoText /\ twice = NoText

\* const changelogCommits = commits.map(commit => {...})
MapCommits ==
    /\ pc = "map"
    /\ seenShas' = {commits[k].sha : k \in {j \in 1..Len(commits) :
                        commits[j].sha # Null /\ commits[j].sha # <<>>}}
    /\ changelogCommits' = [k \in 1..Len(commits) |-> classify(commits[k], options)]
    /\ commits' = [k \in 1..Len(commits) |->
                     [commits[k] EXCEPT !.notes = notesAfterMap(@, contextOf(options))]]
    /\ pc' = "recover"
    /\ UNCHANGED <<options, rendered, text, cfg, once, twice>>

\* if (options.commits) { for (const raw of options.commits) {...} }
RecoverRawCommits ==
    /\ pc = "recover"
    /\ changelogCommits' =
          IF options.hasCommits
          THEN changelogCommits \o recoverFrom(options.commits, 1, seenShas, options)
          ELSE changelogCommits
    /\ pc' = "render"
    /\ UNCHANGED <<commits, options, seenShas, rendered, text, cfg, once, twice>>

\* const preset = await presetFactory(config); let rendered = parseArray(...).trim()
Render ==
    /\ pc = "render"
    /\ rendered' = parseArray(changelogCommits, contextOf(options), configTypes(options))
    /\ pc' = "append"
    /\ UNCHANGED <<commits, options, seenShas, changelogCommits, text, cfg, once, twice>>

\* The Others block and return rendered.
AppendOthers ==
    /\ pc = "append"
    /\ rendered' = appendOthers(rendered, changelogCommits, contextOf(options))
    /\ pc' = "done"
    /\ UNCHANGED <<commits, options, seenShas, changelogCommits, text, cfg, once, twice>>

Next == MapCommits \/ RecoverRawCommits \/ Render \/ AppendOthers

Spec == Init /\ [][Next]_vars

(***************************************************************************)
(* buildNotes called a second time with the same commit objects            *)
(***************************************************************************)
\* The caller keeps the Markdown of the first call in once and calls
\* buildNotes again with the same commits and options: the locals are fresh,
\* the commit objects are as the first call left them.
CallAgain ==
    /\ pc = "done"
    /\ once = NoText
    /\ once' = rendered
    /\ pc' = "map"
    /\ seenShas' = {}
    /\ changelogCommits' = <<>>
    /\ rendered' = <<>>
    /\ UNCHANGED <<commits, options, text, cfg, twice>>

NextAgain ==
    MapCommits \/ RecoverRawCommits \/ Render \/ AppendOthers \/ CallAgain

SpecAgain == Init /\ [][NextAgain]_vars

(***************************************************************************)
(* The text sanitizer applied once and twice                               *)
(***************************************************************************)
MaxSanitizeLen == 9

SanitizeAlphabet == {Backtick, "<", "\n"}

InitSanitize ==
    /\ text \in StringsUpTo(SanitizeAlphabet, MaxSanitizeLen)
    /\ pc = "text"
    /\ cfg = NoText /\ once = NoText /\ twice = NoText
    /\ commits = <<>> /\ options = NoText /\ seenShas = {}
    /\ changelogCommits = <<>> /\ rendered = <<>>

\* htmlEscape(message)
Sanitize ==
    /\ pc = "text"
    /\ once' = htmlEscape(text)
    /\ pc' = "once"
    /\ UNCHANGED <<commits, options, seenShas, changelogCommits, rendered, text, cfg, twice>>

\* htmlEscape applied to a string htmlEscape returned
SanitizeAgain ==
    /\ pc = "once"
    /\ twice' = htmlEscape(once)
    /\ pc' = "twice"
    /\ UNCHANGED <<commits, options, seenShas, changelogCommits, rendered, text, cfg, once>>

NextSanitize == Sanitize \/ SanitizeAgain

SpecSanitize == InitSanitize /\ [][NextSanitize]_vars

(***************************************************************************)
(* The issue link rewrite applied once and twice                           *)
(***************************************************************************)
MaxLinkLen == 5

LinkAlphabet == {"A", "1", "-", "a", " "}

LinkConfigs ==
    {[prefixes |-> <<>>, url |-> <<"u","/">>],
     [prefixes |-> <<<<"A">>>>, url |-> <<"u","/">>]}

ExampleText == <<"A","B","C","-","1","2","3",":"," ","f","i","x"," ","t","h","i","n","g">>
ExampleConfig == [prefixes |-> <<<<"A","B","C">>>>, url |-> <<"h","t","t","p","s",":","/","/","t","/">>]

InitLinkify ==
    /\ \/ text \in StringsUpTo(LinkAlphabet, MaxLinkLen) /\ cfg \in LinkConfigs
       \/ text = ExampleText /\ cfg = ExampleConfig
    /\ pc = "text"
    /\ once = NoText /\ twice = NoText
    /\ commits = <<>> /\ options = NoText /\ seenShas = {}
    /\ changelogCommits = <<>> /\ rendered = <<>>

\* subject = subject.replace(issueKeyRegex, ...)
Linkify ==
    /\ pc = "text"
    /\ once' = replaceIssueKeys(text, trackerPrefixes(cfg.prefixes), cfg.url)
    /\ pc' = "once"
    /\ UNCHANGED <<commits, options, seenShas, changelogCommits, rendered, text, cfg, twice>>

\* The same replace applied to a string it returned
LinkifyAgain ==
    /\ pc = "once"
    /\ twice' = replaceIssueKeys(once, trackerPrefixes(cfg.prefixes), cfg.url)
    /\ pc' = "twice"
    /\ UNCHANGED <<commits, options, seenShas, changelogCommits, rendered, text, cfg, once>>

NextLinkify == Linkify \/ LinkifyAgain

SpecLinkify == InitLinkify /\ [][NextLinkify]_vars

(***************************************************************************)
(* Properties of the text operations                                       *)
(***************************************************************************)
\* C9: the sanitizer is idempotent: sanitizing a sanitized string returns it
\* unchanged.
C9_SanitizeIdempotent == pc = "twice" => twice = once

\* C7: the issue link rewrite is idempotent: rewriting a rewritten text
\* returns it unchanged, a key inside a Markdown link is not wrapped again.
C7_RewriteIdempotent ==
    pc = "twice" =>
        /\ twice = once
        /\ Occurrences(twice, <<"[","[">>) = Occurrences(once, <<"[","[">>)

RECURSIVE matchedKeysFrom(_, _, _)
\* The positions of the keys that the global replace matches in s from
\* position i on, scanning as replaceIssueKeysFrom does.
matchedKeysFrom(s, i, prefixes) ==
    IF i > Len(s) THEN {}
    ELSE LET hit == issueKeyRegex(s, i, prefixes)
         IN IF hit[1] # 0
            THEN {<<hit[2], hit[1]>>} \cup matchedKeysFrom(s, hit[1], prefixes)
            ELSE matchedKeysFrom(s, i + 1, prefixes)

Alphanumeric == UpperChars \cup LowerChars \cup DigitChars

\* [KEY](trackerUrl + KEY)
linkOf(key, url) == <<"[">> \o key \o <<"]","(">> \o url \o key \o <<")">>

\* C8: a key is replaced only when no alphanumeric character (uppercase,
\* lowercase or digit) stands immediately before it; the character before a
\* replaced key is kept in front of the link; the example text yields its
\* link exactly once.
C8_LeftBoundary ==
    pc = "once" =>
        /\ \A m \in matchedKeysFrom(text, 1, cfg.prefixes) :
              /\ m[1] > 1 => text[m[1] - 1] \notin Alphanumeric
              /\ m[1] > 1 =>
                    Occurrences(once, <<text[m[1] - 1]>>
                        \o linkOf(SubSeq(text, m[1], m[2] - 1), cfg.url)) >= 1
        /\ (text = ExampleText /\ cfg = ExampleConfig) =>
              Occurrences(once, <<"[","A","B","C","-","1","2","3","]","(","h","t","t","p","s",":","/","/","t","/","A","B","C","-","1","2","3",")">>) = 1

(***************************************************************************)
(* Properties of buildNotes                                                *)
(***************************************************************************)
Done == pc = "done"

\* The link to the commit, which every bullet of the commit ends with.
commitMark(hash) == <<"/","c","o","m","m","i","t","/">> \o hash \o <<")",")">>

\* Number of bullets of the returned Markdown that belong to the commit.
Bullets(hash) == Occurrences(rendered, commitMark(hash))

\* const types = options.changelogSections ? [...options.changelogSections]
\* : defaultTypes; if (!types.find(t => t.type === 'others'))
\* types.push({type: 'others', section: 'Others'}); config.types = types
typesWithOthers(opts) ==
    LET types == IF opts.changelogSections # <<>> THEN opts.changelogSections
                 ELSE defaultTypes
    IN IF \E k \in 1..Len(types) : types[k].type = others THEN types
       ELSE Append(types, [type |-> others, section |-> <<"O","t","h","e","r","s">>, hidden |-> FALSE])

\* const sectionTypes = (config.types || []).map(t => t.type)
sectionTypes(opts) ==
    {typesWithOthers(opts)[k].type : k \in 1..Len(typesWithOthers(opts))}

\* The section map has a section of this type that is not hidden.
visibleType(type, opts) ==
    \E k \in 1..Len(configTypes(opts)) :
        configTypes(opts)[k].type = type /\ ~configTypes(opts)[k].hidden

\* The section map marks the section of this type hidden.
hiddenType(type, opts) ==
    \E k \in 1..Len(configTypes(opts)) :
        configTypes(opts)[k].type = type /\ configTypes(opts)[k].hidden

\* The entries that the raw-commit recovery pass added.
recovered == {k \in 1..Len(changelogCommits) : k > Len(commits)}

parsedShas == {commits[k].sha : k \in 1..Len(commits)}

rawShas == IF options.hasCommits
           THEN {options.commits[j].sha : j \in 1..Len(options.commits)}
           ELSE {}

\* C1: every commit classified into a visible section type, or into others
\* when the section map has a visible Others section, has exactly one bullet
\* in the returned Markdown (writer output and appended Others block together).
\* The bullets of a commit are told by its commit link, so the commits that
\* have a sha are counted.
C1_ExactlyOnce ==
    Done => \A k \in 1..Len(changelogCommits) :
                (/\ visibleType(changelogCommits[k].type, options)
                 /\ changelogCommits[k].hash # Null)
                    => Bullets(changelogCommits[k].hash) = 1

\* C2: a sha that is in the parsed commits and in the raw commits has exactly
\* one classified entry, the one of the parsed commit, and the returned
\* Markdown has no second bullet for it.
C2_ShaOnce ==
    Done => \A sha \in parsedShas \cap rawShas :
                /\ Cardinality({k \in 1..Len(changelogCommits) :
                                   changelogCommits[k].hash = sha}) = 1
                /\ \A k \in recovered : changelogCommits[k].hash # sha
                /\ Bullets(sha) <= 1

\* The part of C2 that the recovery pass itself decides: one entry a shared sha.
RecoverySkipsSeenShas ==
    Done => \A sha \in parsedShas \cap rawShas :
                /\ Cardinality({k \in 1..Len(changelogCommits) :
                                   changelogCommits[k].hash = sha}) = 1
                /\ \A k \in recovered : changelogCommits[k].hash # sha

\* C3: a raw commit whose first line is a conventional header (of any type), a
\* merge header or a release-automation message, and is no tracker-issue
\* header, gets no entry from the recovery pass and no bullet.
C3_RawNoiseSkipped ==
    Done => \A j \in 1..Len(options.commits) :
                LET raw == options.commits[j]
                    msg == FirstLine(raw.message)
                IN (/\ options.hasCommits
                    /\ \/ isConventionalHeader(msg)
                       \/ mergeHeader(msg)
                       \/ skipRelease(msg)
                    /\ ~trackerIssueHeader(msg, options.trackerList))
                   => /\ \A k \in recovered : changelogCommits[k].hash # raw.sha
                      /\ raw.sha \notin parsedShas => Bullets(raw.sha) = 0

\* The key that jiraKeyExtract takes from a header line, m[1]; Null when the
\* pattern does not match. The opening bracket is optional: the key is tried
\* behind it first.
headerKey(msg, prefixes) ==
    LET inner == IF HasAt(msg, 1, <<"[">>) THEN jiraKeyExtractEnd(msg, 2, prefixes) ELSE 0
        outer == jiraKeyExtractEnd(msg, 1, prefixes)
    IN IF inner # 0 THEN SubSeq(msg, 2, inner - 1)
       ELSE IF outer # 0 THEN SubSeq(msg, 1, outer - 1)
       ELSE Null

\* C4: a raw commit with an unconsumed sha and a tracker-issue header always
\* yields one others entry (subject the sanitized, link-rewritten first line,
\* no notes, references or footer) and a bullet under ### Others that shows
\* the key as a link when a tracker url is configured.
C4_TrackerRawIncluded ==
    Done => \A j \in 1..Len(options.commits) :
                LET raw == options.commits[j]
                    msg == FirstLine(raw.message)
                    mine == {k \in recovered : changelogCommits[k].hash = raw.sha}
                IN (/\ options.hasCommits
                    /\ raw.sha \notin parsedShas
                    /\ trackerIssueHeader(msg, options.trackerList))
                   => /\ Cardinality(mine) = 1
                      /\ \A k \in mine :
                            /\ changelogCommits[k].type = others
                            /\ changelogCommits[k].subject =
                                  linkSubject(htmlEscape(msg), options.trackerList,
                                              options.trackerUrl)
                            /\ changelogCommits[k].notes = <<>>
                            /\ changelogCommits[k].references = <<>>
                            /\ changelogCommits[k].footer = <<>>
                      /\ Occurrences(rendered, <<"#","#","#"," ","O","t","h","e","r","s">>) >= 1
                      /\ Bullets(raw.sha) >= 1
                      /\ (options.trackerUrl # <<>>
                          /\ headerKey(msg, options.trackerList) # Null) =>
                            Occurrences(rendered,
                                linkOf(headerKey(msg, options.trackerList),
                                       options.trackerUrl)) >= 1

\* C5: the entry of a parsed commit has type others and the sanitized header
\* line as subject exactly when the header is a tracker-issue header, whose
\* prefix is one of the configured prefixes when prefixes are configured;
\* otherwise it keeps the commit's type and the sanitized bareMessage.
C5_HeaderDecidesType ==
    pc # "map" => \A k \in 1..Len(commits) :
        IF trackerIssueHeader(commits[k].message, options.trackerList)
        THEN /\ changelogCommits[k].type = others
             /\ changelogCommits[k].subject =
                   linkSubject(htmlEscape(commits[k].message), options.trackerList,
                               options.trackerUrl)
        ELSE /\ changelogCommits[k].type = commits[k].type
             /\ changelogCommits[k].subject =
                   linkSubject(htmlEscape(commits[k].bareMessage), options.trackerList,
                               options.trackerUrl)

\* const normalizedType = sectionTypes.includes(commit.type) ||
\*   !jiraLike.test(commit.type) ? commit.type : 'others'
normalizedType(type, types) ==
    IF type \in types \/ ~jiraLike(type) THEN type ELSE others

\* C6: a parsed commit whose type is shaped like a tracker key and is no type
\* of the section map is classified as others.
C6_KeyShapedType ==
    pc # "map" => \A k \in 1..Len(commits) :
        (jiraLike(commits[k].type) /\ commits[k].type \notin sectionTypes(options))
            => changelogCommits[k].type = normalizedType(commits[k].type,
                                                         sectionTypes(options))

\* C10: the subject of a commit classified into a hidden section type is not
\* in the returned Markdown.
C10_HiddenNotShown ==
    Done => \A k \in 1..Len(changelogCommits) :
                hiddenType(changelogCommits[k].type, options)
                    => Occurrences(rendered, changelogCommits[k].subject) = 0

(***************************************************************************)
(* Properties of the breaking-change notes                                 *)
(***************************************************************************)
\* The notes of a commit that are titled BREAKING CHANGE, in their order.
titledBreaking(notes) == SelectSeq(notes, LAMBDA n : n.title = BREAKING_CHANGE)

\* The positions of the (#N) occurrences of a text.
issueRefs(t) == {i \in 1..Len(t) : IssueRefEnd(t, i) # 0}

\* What the replace of replaceIssueLink puts for the (#N) at position p of the
\* text t: the replacement string with its dollar patterns expanded.
issueLinkOf(t, p, ctx) == issueRefLink(t, p, ctx.host, ctx.owner, ctx.repository)

\* The text u is the text t with one (#N) occurrence, or none when t has
\* none, replaced as replaceIssueLink replaces it, and the rest of t as it was.
oneRefRewritten(t, u, ctx) ==
    IF issueRefs(t) = {} THEN u = t
    ELSE \E p \in issueRefs(t) :
            u = SubSeq(t, 1, p - 1) \o issueLinkOf(t, p, ctx) \o From(t, IssueRefEnd(t, p))

\* C11: the notes of a classified entry are the BREAKING CHANGE notes of its
\* commit, in order; in each of them one (#N) is rewritten into the issue
\* link ([#N](host/owner/repo/issues/N)), written out here letter by letter,
\* and every further (#M) stays; the note old API removed (#42) has the link
\* of issue 42 exactly once. The step from map to recover is MapCommits:
\* commits holds the notes as they were handed over, changelogCommits' the
\* entries made of them. The written-out link is what the code leaves as long
\* as host, owner and repository hold no dollar sign, as those of a GitHub
\* repository do not; GetSubstitution then expands the two $1 of the template
\* and nothing else.
C11_BreakingNotes ==
    [][(pc = "map" /\ pc' = "recover") =>
        \A k \in 1..Len(commits) :
            LET orig == titledBreaking(commits[k].notes)
                got == changelogCommits'[k].notes
                ctx == contextOf(options)
                link(n) == <<"(","[","#">> \o n \o <<"]","(">> \o ctx.host \o <<"/">> \o ctx.owner
                           \o <<"/">> \o ctx.repository \o <<"/","i","s","s","u","e","s","/">> \o n \o <<")",")">>
                linkedAt(t, p) ==
                    SubSeq(t, 1, p - 1)
                    \o link(SubSeq(t, p + 2, IssueRefEnd(t, p) - 2))
                    \o From(t, IssueRefEnd(t, p))
            IN /\ Len(got) = Len(orig)
               /\ \A i \in 1..Len(orig) :
                     /\ got[i].title = BREAKING_CHANGE
                     /\ oneRefRewritten(orig[i].text, got[i].text, ctx)
                     /\ issueRefs(orig[i].text) # {} =>
                           /\ \E p \in issueRefs(orig[i].text) :
                                 got[i].text = linkedAt(orig[i].text, p)
                           /\ Cardinality(issueRefs(got[i].text))
                                 = Cardinality(issueRefs(orig[i].text)) - 1
                     /\ orig[i].text = <<"o","l","d"," ","A","P","I"," ","r","e","m","o","v","e","d"," ","(","#","4","2",")">> =>
                           Occurrences(got[i].text, link(<<"4","2">>)) = 1]_vars

\* An entry whose second note had two (#N): the first one is a link, the
\* second one is as it was.
C11_Witness ==
    /\ pc # "map"
    /\ \E k \in 1..Len(changelogCommits) :
          /\ Len(changelogCommits[k].notes) = 2
          /\ Occurrences(changelogCommits[k].notes[1].text, <<"(","[","#","4","2","]","(">>) = 1
          /\ Occurrences(changelogCommits[k].notes[2].text, <<"(","[","#","7","]","(">>) = 1
          /\ Occurrences(changelogCommits[k].notes[2].text, <<"(","#","8",")">>) = 1

(***************************************************************************)
(* Properties of a second call of buildNotes                               *)
(***************************************************************************)
\* The second call has returned.
DoneAgain == pc = "done" /\ once # NoText

\* C12: buildNotes called twice in succession with the same commit objects
\* and options returns the same Markdown both times.
C12_SameMarkdownAgain == DoneAgain => rendered = once

(***************************************************************************)
(* Properties of the appended Others block                                 *)
(***************************************************************************)
\* The entries of type others, in the order of the entries.
othersEntries == SelectSeq(changelogCommits, LAMBDA c : c.type = others)

\* The entry has a sha.
hasSha(c) == c.hash # Null /\ c.hash # <<>>

\* The text without the whitespace at its end.
withoutTrailingSpace(t) ==
    LET kept == {i \in 1..Len(t) : t[i] \notin SpaceChars}
    IN IF kept = {} THEN <<>>
       ELSE SubSeq(t, 1, CHOOSE i \in kept : \A j \in kept : j <= i)

\* The bullet of the entry c: * subject ([sha7](host/owner/repository/
\* commit/sha)) when c has a sha; without a sha it is * subject with no link
\* and no whitespace at its end.
othersBullet(c, ctx) ==
    IF hasSha(c)
    THEN <<"*"," ">> \o c.subject \o <<" ","(","[">>
         \o SubSeq(c.hash, 1, IF Len(c.hash) < 7 THEN Len(c.hash) ELSE 7)
         \o <<"]","(">> \o ctx.host \o <<"/">> \o ctx.owner \o <<"/">> \o ctx.repository
         \o <<"/","c","o","m","m","i","t","/">> \o c.hash \o <<")",")">>
    ELSE withoutTrailingSpace(<<"*"," ">> \o c.subject)

\* C13: when an entry has type others, the Markdown returned is the writer's
\* output, when that is not empty, and a blank line, then the line
\* ### Others, a blank line and one bullet for every others entry in the
\* order of the entries (parsed commits, then recovered raw commits). The
\* step from append to done is AppendOthers: rendered holds the writer's
\* output, rendered' the Markdown returned.
C13_OthersBlock ==
    [][(pc = "append" /\ pc' = "done" /\ Len(othersEntries) > 0) =>
        rendered' = (IF rendered # <<>> THEN rendered \o <<"\n","\n">> ELSE <<>>)
                    \o <<"#","#","#"," ","O","t","h","e","r","s","\n","\n">>
                    \o Join([k \in 1..Len(othersEntries) |->
                                othersBullet(othersEntries[k], contextOf(options))],
                            <<"\n">>)]_vars

\* The block of two entries behind the version header: a parsed commit
\* without sha, then a recovered raw commit.
C13_Witness ==
    /\ pc = "done"
    /\ Len(othersEntries) = 2
    /\ ~hasSha(othersEntries[1])
    /\ hasSha(othersEntries[2])
    /\ Len(commits) = 1
    /\ options.version # <<>>
    /\ Occurrences(rendered, <<"#","#","#"," ","O","t","h","e","r","s","\n","\n","*"," ","A","B","C","-","4",":"," ","n","o"," ","s","h","a","\n","*"," ">>) = 1

(***************************************************************************)
(* Raw commits without letters                                             *)
(***************************************************************************)
\* C14: a raw commit whose first line has no letter, as the version string
\* 1.2.3, gets no entry from the recovery pass and no bullet in the Others
\* block.
C14_NoLettersExcluded ==
    Done => \A j \in 1..Len(options.commits) :
                LET raw == options.commits[j]
                IN (options.hasCommits /\ ~hasLetters(FirstLine(raw.message)))
                   => /\ \A k \in recovered : changelogCommits[k].hash # raw.sha
                      /\ raw.sha \notin parsedShas => Bullets(raw.sha) = 0

====
